---- MODULE Spec2Model ----
(***************************************************************************)
(* Model of app.py: the /m3u request handler get_m3u (credential check,    *)
(* fetch loop with retries) and the generator stream_and_categorize that   *)
(* it returns (line parser, region filter, de-duplication, keyword and     *)
(* external classification, metadata rewriting).                           *)
(*                                                                         *)
(* Text is modelled character by character: a Python str is a sequence of  *)
(* one-character strings, a bytes object a sequence of bytes.  An ASCII     *)
(* byte is written as its character, any other byte by its value           *)
(* ("0xC3"); a character outside ASCII, and an ASCII control character     *)
(* that has no escape in a string, is written by its code point ("U+00F1", *)
(* "U+000B").                                                              *)
(*                                                                         *)
(* The generator runs from one point where it waits to the next: the for   *)
(* statement that waits for a line, requests.post that waits for the       *)
(* answer, and the yields of lines 211 and 212 where it is suspended until *)
(* the server asks for the next value.  Each of these is a step.           *)
(***************************************************************************)
EXTENDS Integers, Sequences, FiniteSets, TLC

\* Python's None.  A one-element sequence that is no text of the model.
None == <<"<None>">>

(***************************************************************************)
(* str / bytes methods used by app.py                                      *)
(***************************************************************************)
LowerChars == <<"a","b","c","d","e","f","g","h","i","j","k","l","m",
                "n","o","p","q","r","s","t","u","v","w","x","y","z">>
UpperChars == <<"A","B","C","D","E","F","G","H","I","J","K","L","M",
                "N","O","P","Q","R","S","T","U","V","W","X","Y","Z">>
Digits == {"0","1","2","3","4","5","6","7","8","9"}

upper_char(c) ==
    IF \E i \in 1..26 : LowerChars[i] = c
    THEN UpperChars[CHOOSE i \in 1..26 : LowerChars[i] = c]
    ELSE IF c = "U+00F1" THEN "U+00D1"
    ELSE IF c = "U+00E0" THEN "U+00C0"
    ELSE IF c = "U+00E5" THEN "U+00C5"
    ELSE c

lower_char(c) ==
    IF \E i \in 1..26 : UpperChars[i] = c
    THEN LowerChars[CHOOSE i \in 1..26 : UpperChars[i] = c]
    ELSE IF c = "U+00D1" THEN "U+00F1"
    ELSE IF c = "U+00C0" THEN "U+00E0"
    ELSE IF c = "U+00C5" THEN "U+00E5"
    ELSE c

\* str.upper() and str.lower()
upper(s) == [i \in 1..Len(s) |-> upper_char(s[i])]
lower(s) == [i \in 1..Len(s) |-> lower_char(s[i])]

\* the characters str.strip() removes, those with str.isspace(): U+0009 to
\* U+000D, U+001C to U+001F, the space, U+0085 and U+00A0 (no text of the model
\* holds a character above U+00FF)
Whitespace ==
    {"\t", "\n", "U+000B", "\f", "\r", "U+001C", "U+001D", "U+001E", "U+001F", " ",
     "U+0085", "U+00A0"}

\* str.lstrip(): drop the leading whitespace
lstrip(s) ==
    IF \A i \in 1..Len(s) : s[i] \in Whitespace THEN <<>>
    ELSE SubSeq(s, CHOOSE i \in 1..Len(s) :
                       /\ s[i] \notin Whitespace
                       /\ \A j \in 1..(i-1) : s[j] \in Whitespace, Len(s))

\* str.rstrip(): drop the trailing whitespace
rstrip(s) ==
    IF \A i \in 1..Len(s) : s[i] \in Whitespace THEN <<>>
    ELSE SubSeq(s, 1, CHOOSE i \in 1..Len(s) :
                          /\ s[i] \notin Whitespace
                          /\ \A j \in (i+1)..Len(s) : s[j] \in Whitespace)

\* str.strip()
strip(s) == rstrip(lstrip(s))

\* s.startswith(p)
startswith(s, p) == Len(s) >= Len(p) /\ SubSeq(s, 1, Len(p)) = p

\* positions (0-based, as str.find) at which kw occurs in s
occurrences(kw, s) ==
    {i \in 0..(Len(s) - Len(kw)) : SubSeq(s, i + 1, i + Len(kw)) = kw}

\* the Python expression  kw in s
contains(kw, s) == occurrences(kw, s) # {}

\* The bytes of the model that are not ASCII: 0xC2 and 0xC3 lead a two-byte
\* sequence, 0x85, 0x91, 0xA0 and 0xB1 continue one, 0xFE and 0xFF occur in no
\* UTF-8 text.
LeadBytes == {"0xC2", "0xC3"}
ContinuationBytes == {"0x85", "0x91", "0xA0", "0xB1"}
NonAsciiBytes == LeadBytes \cup ContinuationBytes \cup {"0xFE", "0xFF"}

\* the character that the bytes lead, b encode
two_byte_char(lead, b) ==
    IF lead = "0xC2"
    THEN CASE b = "0x85" -> "U+0085" [] b = "0x91" -> "U+0091"
           [] b = "0xA0" -> "U+00A0" [] OTHER -> "U+00B1"
    ELSE CASE b = "0x85" -> "U+00C5" [] b = "0x91" -> "U+00D1"
           [] b = "0xA0" -> "U+00E0" [] OTHER -> "U+00F1"

\* what raw.decode('utf-8') gives when it raises UnicodeDecodeError
UnicodeDecodeError == <<"<UnicodeDecodeError>">>

\* raw[i] is part of a complete UTF-8 sequence of raw
byte_is_valid_at(raw, i) ==
    \/ raw[i] \notin NonAsciiBytes
    \/ raw[i] \in LeadBytes /\ i < Len(raw) /\ raw[i + 1] \in ContinuationBytes
    \/ raw[i] \in ContinuationBytes /\ i > 1 /\ raw[i - 1] \in LeadBytes

\* the positions of raw at which a character ends (every byte but a lead byte)
char_ends(raw) ==
    LET ends(i) == raw[i] \notin LeadBytes
    IN  SelectSeq([i \in 1..Len(raw) |-> i], ends)

\* the character of raw that ends at position i
char_ending_at(raw, i) ==
    IF raw[i] \in ContinuationBytes THEN two_byte_char(raw[i - 1], raw[i]) ELSE raw[i]

\* raw.decode('utf-8'): the text, or UnicodeDecodeError
decode(raw) ==
    IF \E i \in 1..Len(raw) : ~byte_is_valid_at(raw, i) THEN UnicodeDecodeError
    ELSE LET ends == char_ends(raw)
         IN  [k \in 1..Len(ends) |-> char_ending_at(raw, ends[k])]

\* raw.decode('utf-8') raises UnicodeDecodeError
decode_fails(raw) == decode(raw) = UnicodeDecodeError

(***************************************************************************)
(* Regular expressions (app.py lines 13, 14, 130)                          *)
(***************************************************************************)
EXTINF_MARK == <<"#","E","X","T","I","N","F",":">>

\* EXTINF_REGEX.match(s) is not None:  ^(#EXTINF:[^,]*)(?:,)(.*)  with re.IGNORECASE.
\* [^,]* stops at the first comma of the line, which must exist.
EXTINF_REGEX_matches(s) ==
    /\ startswith(upper(s), EXTINF_MARK)
    /\ \E i \in 1..Len(s) : s[i] = ","

\* index of the comma the regex consumes: the first comma of the line
EXTINF_REGEX_comma(s) ==
    CHOOSE i \in 1..Len(s) : s[i] = "," /\ \A j \in 1..(i-1) : s[j] # ","

\* display_match.group(1): [^,]* takes everything up to the comma
EXTINF_REGEX_group1(s) == SubSeq(s, 1, EXTINF_REGEX_comma(s) - 1)

\* display_match.group(2): .* takes what follows the comma up to the first
\* newline ('.' matches no '\n' without re.DOTALL), or up to the end
EXTINF_REGEX_group2(s) ==
    LET first == EXTINF_REGEX_comma(s) + 1
        newlines == {i \in first..Len(s) : s[i] = "\n"}
    IN  SubSeq(s, first,
               IF newlines = {} THEN Len(s)
               ELSE (CHOOSE i \in newlines : \A j \in newlines : i <= j) - 1)

URL_TVG_MARK == <<"U","R","L","-","T","V","G","=","\"">>

\* start positions (1-based, of the value) of the matches of url-tvg="([^"]+)"
TVG_URL_REGEX_starts(s) ==
    {i + Len(URL_TVG_MARK) + 1 : i \in
        {k \in occurrences(URL_TVG_MARK, upper(s)) :
            /\ k + Len(URL_TVG_MARK) + 1 <= Len(s)
            /\ s[k + Len(URL_TVG_MARK) + 1] # "\""
            /\ \E e \in (k + Len(URL_TVG_MARK) + 2)..Len(s) : s[e] = "\""}}

\* TVG_URL_REGEX.search(s): group(1) of the leftmost match, or None
TVG_URL_REGEX_search(s) ==
    IF TVG_URL_REGEX_starts(s) = {} THEN None
    ELSE LET b == CHOOSE i \in TVG_URL_REGEX_starts(s) :
                      \A j \in TVG_URL_REGEX_starts(s) : i <= j
             e == CHOOSE i \in (b+1)..Len(s) :
                      s[i] = "\"" /\ \A j \in b..(i-1) : s[j] # "\""
         IN  SubSeq(s, b, e - 1)

\* \w of the re module
is_word_char(c) ==
    \/ c \in Digits \/ c = "_"
    \/ c \in {"U+00C0", "U+00C5", "U+00D1", "U+00E0", "U+00E5", "U+00F1"}
    \/ \E i \in 1..26 : LowerChars[i] = c \/ UpperChars[i] = c

TELE == <<"t","e","l","e">>

\* tele_word_regex.search(s) is not None:  \btele\b
tele_word_regex_search(s) ==
    \E i \in occurrences(TELE, s) :
        /\ (i = 0 \/ ~is_word_char(s[i]))
        /\ (i + 4 = Len(s) \/ ~is_word_char(s[i + 5]))

(***************************************************************************)
(* CATEGORIES (app.py lines 23-44), in the order of the dict literal       *)
(***************************************************************************)
\* "USA News"
CAT_USA_News == <<"U","S","A"," ","N","e","w","s">>
\* "USA Movies"
CAT_USA_Movies == <<"U","S","A"," ","M","o","v","i","e","s">>
\* "USA Kids"
CAT_USA_Kids == <<"U","S","A"," ","K","i","d","s">>
\* "US LATINO"
CAT_US_LATINO == <<"U","S"," ","L","A","T","I","N","O">>
\* "Documentary"
CAT_Documentary == <<"D","o","c","u","m","e","n","t","a","r","y">>
\* "Adult"
CAT_Adult == <<"A","d","u","l","t">>
\* "Mexico News"
CAT_Mexico_News == <<"M","e","x","i","c","o"," ","N","e","w","s">>
\* "Mexico Movies"
CAT_Mexico_Movies == <<"M","e","x","i","c","o"," ","M","o","v","i","e","s">>
\* "Mexico Kids"
CAT_Mexico_Kids == <<"M","e","x","i","c","o"," ","K","i","d","s">>
\* "Mexico General"
CAT_Mexico_General == <<"M","e","x","i","c","o"," ","G","e","n","e","r","a","l">>
\* "Sports"
CAT_Sports == <<"S","p","o","r","t","s">>
\* "USA General"
CAT_USA_General == <<"U","S","A"," ","G","e","n","e","r","a","l">>

\* CATEGORIES["USA News"] = chicago, illinois, chgo
KW_USA_News ==
    << <<"c","h","i","c","a","g","o">>, <<"i","l","l","i","n","o","i","s">>, <<"c","h","g","o">> >>
\* CATEGORIES["USA Movies"] = hbo, cinemax, starz, amc, showtime, tcm, movie, films, cine, mgm, indieplex, lmn, lifetime movies
KW_USA_Movies ==
    << <<"h","b","o">>, <<"c","i","n","e","m","a","x">>, <<"s","t","a","r","z">>, <<"a","m","c">>,
       <<"s","h","o","w","t","i","m","e">>, <<"t","c","m">>, <<"m","o","v","i","e">>,
       <<"f","i","l","m","s">>, <<"c","i","n","e">>, <<"m","g","m">>,
       <<"i","n","d","i","e","p","l","e","x">>, <<"l","m","n">>,
       <<"l","i","f","e","t","i","m","e"," ","m","o","v","i","e","s">> >>
\* CATEGORIES["USA Kids"] = cartoon, nick, disney, boomerang, pbskids, disney jr, cartoonito, family, kids
KW_USA_Kids ==
    << <<"c","a","r","t","o","o","n">>, <<"n","i","c","k">>, <<"d","i","s","n","e","y">>,
       <<"b","o","o","m","e","r","a","n","g">>, <<"p","b","s","k","i","d","s">>,
       <<"d","i","s","n","e","y"," ","j","r">>, <<"c","a","r","t","o","o","n","i","t","o">>,
       <<"f","a","m","i","l","y">>, <<"k","i","d","s">> >>
\* CATEGORIES["US LATINO"] = latino, spanish, univision, telemundo
KW_US_LATINO ==
    << <<"l","a","t","i","n","o">>, <<"s","p","a","n","i","s","h">>,
       <<"u","n","i","v","i","s","i","o","n">>, <<"t","e","l","e","m","u","n","d","o">> >>
\* CATEGORIES["Documentary"] = nat geo, discovery, history, documentary, science, travel, animal planet, id, investigation, crime, hgtv, cooking channel, food network, fyi
KW_Documentary ==
    << <<"n","a","t"," ","g","e","o">>, <<"d","i","s","c","o","v","e","r","y">>,
       <<"h","i","s","t","o","r","y">>, <<"d","o","c","u","m","e","n","t","a","r","y">>,
       <<"s","c","i","e","n","c","e">>, <<"t","r","a","v","e","l">>,
       <<"a","n","i","m","a","l"," ","p","l","a","n","e","t">>, <<"i","d">>,
       <<"i","n","v","e","s","t","i","g","a","t","i","o","n">>, <<"c","r","i","m","e">>,
       <<"h","g","t","v">>, <<"c","o","o","k","i","n","g"," ","c","h","a","n","n","e","l">>,
       <<"f","o","o","d"," ","n","e","t","w","o","r","k">>, <<"f","y","i">> >>
\* CATEGORIES["Adult"] = xxx, porn, adult, eros
KW_Adult ==
    << <<"x","x","x">>, <<"p","o","r","n">>, <<"a","d","u","l","t">>, <<"e","r","o","s">> >>
\* CATEGORIES["Mexico News"] = televisa, tv azteca, milenio, imagen, foro tv, forotv, noticias, news
KW_Mexico_News ==
    << <<"t","e","l","e","v","i","s","a">>, <<"t","v"," ","a","z","t","e","c","a">>,
       <<"m","i","l","e","n","i","o">>, <<"i","m","a","g","e","n">>,
       <<"f","o","r","o"," ","t","v">>, <<"f","o","r","o","t","v">>,
       <<"n","o","t","i","c","i","a","s">>, <<"n","e","w","s">> >>
\* CATEGORIES["Mexico Movies"] = cine, canal 5, canal once, cinema, peliculas
KW_Mexico_Movies ==
    << <<"c","i","n","e">>, <<"c","a","n","a","l"," ","5">>,
       <<"c","a","n","a","l"," ","o","n","c","e">>, <<"c","i","n","e","m","a">>,
       <<"p","e","l","i","c","u","l","a","s">> >>
\* CATEGORIES["Mexico Kids"] = cartoon, nick, disney, boomerang, pbskids, infantil, ninos, ni\u221a\xb1os, discovery kids, cartoonito, junior, kids
KW_Mexico_Kids ==
    << <<"c","a","r","t","o","o","n">>, <<"n","i","c","k">>, <<"d","i","s","n","e","y">>,
       <<"b","o","o","m","e","r","a","n","g">>, <<"p","b","s","k","i","d","s">>,
       <<"i","n","f","a","n","t","i","l">>, <<"n","i","n","o","s">>,
       <<"n","i","U+221A","U+00B1","o","s">>,
       <<"d","i","s","c","o","v","e","r","y"," ","k","i","d","s">>,
       <<"c","a","r","t","o","o","n","i","t","o">>, <<"j","u","n","i","o","r">>,
       <<"k","i","d","s">> >>
\* CATEGORIES["Mexico General"] = las estrellas, azteca uno, canal 2, televisa, azteca, canal 4, general
KW_Mexico_General ==
    << <<"l","a","s"," ","e","s","t","r","e","l","l","a","s">>,
       <<"a","z","t","e","c","a"," ","u","n","o">>, <<"c","a","n","a","l"," ","2">>,
       <<"t","e","l","e","v","i","s","a">>, <<"a","z","t","e","c","a">>,
       <<"c","a","n","a","l"," ","4">>, <<"g","e","n","e","r","a","l">> >>
\* CATEGORIES["Sports"] = sports, football, baseball, basketball, soccer, tennis, golf, fighting, nba, nfl, mlb, espn
KW_Sports ==
    << <<"s","p","o","r","t","s">>, <<"f","o","o","t","b","a","l","l">>,
       <<"b","a","s","e","b","a","l","l">>, <<"b","a","s","k","e","t","b","a","l","l">>,
       <<"s","o","c","c","e","r">>, <<"t","e","n","n","i","s">>, <<"g","o","l","f">>,
       <<"f","i","g","h","t","i","n","g">>, <<"n","b","a">>, <<"n","f","l">>, <<"m","l","b">>,
       <<"e","s","p","n">> >>
\* CATEGORIES["USA General"] = general, entertainment, local
KW_USA_General ==
    << <<"g","e","n","e","r","a","l">>, <<"e","n","t","e","r","t","a","i","n","m","e","n","t">>,
       <<"l","o","c","a","l">> >>

\* VALID_CATEGORIES = list(CATEGORIES.keys()): the names in insertion order
VALID_CATEGORIES ==
    << CAT_USA_News, CAT_USA_Movies, CAT_USA_Kids, CAT_US_LATINO, CAT_Documentary,
       CAT_Adult, CAT_Mexico_News, CAT_Mexico_Movies, CAT_Mexico_Kids,
       CAT_Mexico_General, CAT_Sports, CAT_USA_General >>

\* CATEGORIES.get(cat_name): the keyword list.  For a name that is no key the code
\* gets None, which `keywords and ...` treats like the empty list written here.
CATEGORIES_get(cat_name) ==
    CASE cat_name = CAT_USA_News       -> KW_USA_News
      [] cat_name = CAT_USA_Movies     -> KW_USA_Movies
      [] cat_name = CAT_USA_Kids       -> KW_USA_Kids
      [] cat_name = CAT_US_LATINO      -> KW_US_LATINO
      [] cat_name = CAT_Documentary    -> KW_Documentary
      [] cat_name = CAT_Adult          -> KW_Adult
      [] cat_name = CAT_Mexico_News    -> KW_Mexico_News
      [] cat_name = CAT_Mexico_Movies  -> KW_Mexico_Movies
      [] cat_name = CAT_Mexico_Kids    -> KW_Mexico_Kids
      [] cat_name = CAT_Mexico_General -> KW_Mexico_General
      [] cat_name = CAT_Sports         -> KW_Sports
      [] cat_name = CAT_USA_General    -> KW_USA_General
      [] OTHER                         -> <<>>

\* x in seq, for a Python list
in_list(x, seq) == \E i \in 1..Len(seq) : seq[i] = x

\* ACCEPTABLE_PREFIXES = ('US|', 'MX|', 'MXC|')
ACCEPTABLE_PREFIXES == << <<"U","S","|">>, <<"M","X","|">>, <<"M","X","C","|">> >>

(***************************************************************************)
(* get_llm_category (app.py lines 55-112)                                  *)
(***************************************************************************)
REGION_US == <<"U","S">>
REGION_MX == <<"M","X">>

\* line 64: the names kept for region 'US'.  `c not in CATEGORIES["Mexico ..."]`
\* compares a category name with the keywords of that category.
target_set_us_keeps(c) ==
    /\ ~in_list(c, KW_Mexico_General)
    /\ ~in_list(c, KW_Mexico_Kids)
    /\ ~in_list(c, KW_Mexico_News)
    /\ c # CAT_Mexico_General

\* line 67: the names kept for the other regions
target_set_mx_keeps(c) ==
    \/ in_list(c, KW_Mexico_General)
    \/ in_list(c, KW_Mexico_Kids)
    \/ in_list(c, KW_Mexico_News)

\* lines 62-67: the list of names written into the prompt
target_set(region_prefix) ==
    IF region_prefix = REGION_US
    THEN SelectSeq(VALID_CATEGORIES, target_set_us_keeps)
    ELSE SelectSeq(VALID_CATEGORIES, target_set_mx_keeps)

\* The outcomes of requests.post(...) and of reading its body (lines 97-102):
\*   text              a 200 response whose candidates[0].content.parts[0].text is t
\*   no_candidates     a 200 response whose JSON object has no 'candidates' key
\*   empty_candidates  a 200 response whose JSON object has 'candidates': []
\*   RequestException  a transport error, a timeout, or an HTTP error status
ReplyText(t) == [kind |-> "text", text |-> t]
ReplyNoCandidates == [kind |-> "no_candidates", text |-> <<>>]
ReplyEmptyCandidates == [kind |-> "empty_candidates", text |-> <<>>]
ReplyRequestException == [kind |-> "RequestException", text |-> <<>>]

\* line 105: the check applied to the returned text
llm_text_is_valid(text, region_prefix) == in_list(text, VALID_CATEGORIES)

\* get_llm_category(channel_name, api_key, region_prefix) when the service answers
\* `reply`.  value: the returned name or None; raised: the exception that leaves the
\* function ("none" when it returns); contacted: whether requests.post was called.
\* a value that counts as set whatever it is
is_not_set_never(value) == FALSE

\* `not value` for what os.environ.get returns: None or the empty string
\* (lines 59, 236)
is_not_set(value) == value = None \/ value = <<>>

get_llm_category(channel_name, api_key, region_prefix, reply) ==
    IF is_not_set(api_key)
    THEN [value |-> None, raised |-> "none", contacted |-> FALSE]
    ELSE CASE reply.kind = "RequestException" ->
                [value |-> None, raised |-> "none", contacted |-> TRUE]
           [] reply.kind = "empty_candidates" ->
                [value |-> None, raised |-> "IndexError", contacted |-> TRUE]
           [] reply.kind = "no_candidates" ->
                [value |-> None, raised |-> "none", contacted |-> TRUE]
           [] OTHER ->
                [value |-> IF llm_text_is_valid(strip(reply.text), region_prefix)
                           THEN strip(reply.text) ELSE None,
                 raised |-> "none", contacted |-> TRUE]

(***************************************************************************)
(* stream_and_categorize (app.py lines 116-217)                            *)
(***************************************************************************)
EXTINF == <<"#","E","X","T","I","N","F">>
HTTP == <<"h","t","t","p">>
RTMP == <<"r","t","m","p">>
PREFIX_US == <<"U","S","|">>
PREFIX_MX == <<"M","X","|">>
PREFIX_MXC == <<"M","X","C","|">>
GROUP_TITLE_OPEN == <<" ","g","r","o","u","p","-","t","i","t","l","e","=","\"">>
GROUP_TITLE_CLOSE == <<"\"",",">>
EXTM3U == <<"#","E","X","T","M","3","U">>
URL_TVG_OPEN == <<" ","u","r","l","-","t","v","g","=","\"">>
NL == <<"\n">>

\* the header without the url-tvg attribute of the source
header_line_without_tvg(tvg_url) == EXTM3U \o NL

\* lines 122-125: the header the generator yields first
header_line(tvg_url) ==
    IF tvg_url # None /\ tvg_url # <<>>
    THEN EXTM3U \o URL_TVG_OPEN \o tvg_url \o <<"\"">> \o NL
    ELSE EXTM3U \o NL

\* lines 154-164: the region of a display name, or None when it is out of scope
region_of(display_upper) ==
    IF startswith(display_upper, PREFIX_US) THEN REGION_US
    ELSE IF startswith(display_upper, PREFIX_MX) \/ startswith(display_upper, PREFIX_MXC)
    THEN REGION_MX
    ELSE None

\* lines 157, 161
fallback_category(region_prefix) ==
    IF region_prefix = REGION_US THEN CAT_USA_General ELSE CAT_Mexico_General

\* lines 156, 160: the global name the region's category list is read from
region_categories_name(region_prefix) ==
    IF region_prefix = REGION_US THEN "US_CATEGORY_NAMES" ELSE "MEXICO_CATEGORY_NAMES"

\* lines 176-177: keywords and any(kw in display_lower for kw in keywords)
category_matches(cat_name, display_lower) ==
    LET keywords == CATEGORIES_get(cat_name)
    IN  \E k \in 1..Len(keywords) : contains(keywords[k], display_lower)

\* lines 174-179: the first name of region_categories that matches, or None
keyword_category(region_categories, display_lower) ==
    IF \E i \in 1..Len(region_categories) :
           category_matches(region_categories[i], display_lower)
    THEN region_categories[CHOOSE i \in 1..Len(region_categories) :
             /\ category_matches(region_categories[i], display_lower)
             /\ \A j \in 1..(i-1) : ~category_matches(region_categories[j], display_lower)]
    ELSE None

\* lines 184-190
needs_llm_check(region_prefix, display_lower) ==
    /\ region_prefix = REGION_US
    /\ \/ contains(<<"n","e","w","s">>, display_lower)
       \/ contains(<<"n","o","t","i","c","i","a","s">>, display_lower)
       \/ contains(<<"p","r","o","g","r","a","m","a">>, display_lower)
       \/ contains(<<"c","a","n","a","l">>, display_lower)
       \/ contains(<<"n","o","v","e","l","a">>, display_lower)
       \/ tele_word_regex_search(display_lower)
       \/ contains(<<"l","a","t","i","n","o">>, display_lower)
       \/ contains(<<"s","p","a","n","i","s","h">>, display_lower)

\* lines 201-205: the display name with the first matching prefix cut off
strip_prefix(display_name) ==
    IF \E i \in 1..Len(ACCEPTABLE_PREFIXES) :
           startswith(upper(display_name), ACCEPTABLE_PREFIXES[i])
    THEN LET i == CHOOSE i \in 1..Len(ACCEPTABLE_PREFIXES) :
                    /\ startswith(upper(display_name), ACCEPTABLE_PREFIXES[i])
                    /\ \A j \in 1..(i-1) :
                           ~startswith(upper(display_name), ACCEPTABLE_PREFIXES[j])
         IN  lstrip(SubSeq(display_name, Len(ACCEPTABLE_PREFIXES[i]) + 1,
                           Len(display_name)))
    ELSE display_name

\* lines 207-209: the rewritten metadata line
modified_ext_line(attributes, final_group, new_display_name) ==
    attributes \o GROUP_TITLE_OPEN \o final_group \o GROUP_TITLE_CLOSE \o new_display_name

\* the membership test of line 167 left out
is_duplicate_never(line, seen_streams) == FALSE

\* a pending metadata kept when another metadata line arrives
current_ext_first_kept(current_ext, line) ==
    IF current_ext # None THEN current_ext ELSE line

\* line 139: current_ext = line
current_ext_after_metadata(current_ext, line) == line

\* the pending metadata left in place after its pair was yielded
current_ext_kept(current_ext) == current_ext

\* line 214: current_ext = None, after the two yields
current_ext_after_yield(current_ext) == None

\* the value put between the header and the values yielded after it
yield_value_before_earlier(yielded, text) ==
    <<Head(yielded)>> \o <<text \o NL>> \o Tail(yielded)

\* lines 211, 212: yield text + '\n'
yield_value(yielded, text) == Append(yielded, text \o NL)

\* lines 167-169: the record's locator was already emitted in this pass
is_duplicate(line, seen_streams) == line \in seen_streams

\* line 142: the line is a locator
is_locator(line) == startswith(line, HTTP) \/ startswith(line, RTMP)

\* The generator object.  state is "created" (not started), "suspended" (started
\* and alive), "finished" (StopIteration) or "raised" (an exception left it,
\* named by exc).  `at` is the line of app.py it stands at while it is alive:
\*   "line_132"  at the for statement, waiting for the next line (it got there
\*               from the yield of the header or from the end of an iteration)
\*   "line_97"   inside requests.post, called from line 193, waiting for the answer
\*   "line_211"  suspended at  yield modified_ext_line + '\n'
\*   "line_212"  suspended at  yield line + '\n'
\* line is the local `line` of the iteration that is under way (None between
\* iterations), yielded is everything the generator has yielded so far.
new_generator ==
    [state |-> "created", exc |-> "none", at |-> "line_116", seen_streams |-> {},
     current_ext |-> None, line |-> None, yielded |-> <<>>]

\* lines 149-151, 154-161: the display name and the region of the pending metadata
pending_display_name(g) == strip(EXTINF_REGEX_group2(g.current_ext))
pending_region(g) == region_of(upper(pending_display_name(g)))

\* lines 199-211: with `found` the category found (or None), the generator builds
\* the metadata line, yields it and is suspended there
yield_metadata(g, found) ==
    LET region_prefix == pending_region(g)
        final_group == IF found # None THEN found ELSE fallback_category(region_prefix)
        new_display_name == strip_prefix(pending_display_name(g))
        attributes == strip(EXTINF_REGEX_group1(g.current_ext))
    IN  [g EXCEPT !.at = "line_211",
                  !.yielded = yield_value(@, modified_ext_line(
                                  attributes, final_group, new_display_name))]

\* lines 144-211: the branch taken for the locator `line` while a metadata line
\* is pending, as far as the generator runs without waiting: to the end of the
\* iteration, to the exception that leaves it, into requests.post, or to the
\* yield of line 211.  `globals` is the module's global namespace.  outcome
\* names how far the iteration got, contacted whether requests.post was called.
record_branch(g, line, api_key, globals) ==
    LET cleared == [g EXCEPT !.current_ext = None]
    IN
    IF ~EXTINF_REGEX_matches(g.current_ext)
    THEN [gen |-> cleared, outcome |-> "malformed", contacted |-> FALSE]
    ELSE
    LET display_name == pending_display_name(g)
        display_lower == lower(display_name)
        region_prefix == pending_region(g)
    IN
    IF region_prefix = None
    THEN [gen |-> cleared, outcome |-> "out_of_scope", contacted |-> FALSE]
    ELSE IF region_categories_name(region_prefix) \notin DOMAIN globals
    THEN [gen |-> [g EXCEPT !.state = "raised", !.exc = "NameError"],
          outcome |-> "NameError", contacted |-> FALSE]
    ELSE IF is_duplicate(line, g.seen_streams)
    THEN [gen |-> cleared, outcome |-> "duplicate", contacted |-> FALSE]
    ELSE
    LET region_categories == globals[region_categories_name(region_prefix)]
        added == [g EXCEPT !.seen_streams = @ \cup {line}, !.line = line]
        by_keyword == keyword_category(region_categories, display_lower)
        ask == by_keyword = None /\ needs_llm_check(region_prefix, display_lower)
        posts == get_llm_category(display_name, api_key, region_prefix,
                                  ReplyNoCandidates).contacted
    IN
    IF ask /\ posts
    THEN [gen |-> [added EXCEPT !.at = "line_97"], outcome |-> "asking",
          contacted |-> TRUE]
    ELSE [gen |-> yield_metadata(added, by_keyword), outcome |-> "yielding",
          contacted |-> FALSE]

\* lines 133-217: one iteration of the for loop for the raw line it is given, as
\* far as the generator runs without waiting
loop_body(g, raw_line, api_key, globals) ==
    IF decode_fails(raw_line)
    THEN [gen |-> g, outcome |-> "decode_skip", contacted |-> FALSE]
    ELSE
    LET line == strip(decode(raw_line))
    IN
    IF startswith(line, EXTINF)
    THEN [gen |-> [g EXCEPT !.current_ext = current_ext_after_metadata(@, line)],
          outcome |-> "metadata",
          contacted |-> FALSE]
    ELSE IF g.current_ext # None /\ is_locator(line)
    THEN record_branch(g, line, api_key, globals)
    ELSE IF g.current_ext # None
    THEN [gen |-> [g EXCEPT !.current_ext = None], outcome |-> "cleared",
          contacted |-> FALSE]
    ELSE [gen |-> g, outcome |-> "ignored", contacted |-> FALSE]

\* lines 97-112, 193-211: requests.post ends in `reply`; get_llm_category returns
\* or raises, and the generator goes on to the yield of line 211
after_post(g, api_key, reply) ==
    LET llm == get_llm_category(pending_display_name(g), api_key, pending_region(g),
                                reply)
    IN  IF llm.raised # "none"
        THEN [gen |-> [g EXCEPT !.state = "raised", !.exc = llm.raised],
              outcome |-> llm.raised]
        ELSE [gen |-> yield_metadata(g, llm.value), outcome |-> "yielding"]

\* the consumer asks for the next value of a generator suspended at line 211: it
\* runs to the yield of line 212
resume_at_211(g) ==
    [g EXCEPT !.at = "line_212", !.yielded = yield_value(@, g.line)]

\* the consumer asks for the next value of a generator suspended at line 212: it
\* runs line 214 and is back at the for statement
resume_at_212(g) ==
    [g EXCEPT !.at = "line_132", !.current_ext = current_ext_after_yield(@),
              !.line = None]

(***************************************************************************)
(* Inputs of the model                                                     *)
(***************************************************************************)
\* '#EXTINF:-1,US|CNN News'
L_US_CNN_NEWS == <<"#","E","X","T","I","N","F",":","-","1",",","U","S","|","C","N","N"," ","N","e","w","s">>
\* '#EXTINF:-1 tvg-id="a" group-title="Old",US|US|HBO'
L_US_US_HBO == <<"#","E","X","T","I","N","F",":","-","1"," ","t","v","g","-","i","d","=","\"","a","\""," ","g","r","o","u","p","-","t","i","t","l","e","=","\"","O","l","d","\"",",","U","S","|","U","S","|","H","B","O">>
\* '#EXTINF:-1,MX|Canal 5'
L_MX_CANAL_5 == <<"#","E","X","T","I","N","F",":","-","1",",","M","X","|","C","a","n","a","l"," ","5">>
\* '#EXTINF:-1,MXC|Zeta'
L_MXC_ZETA == <<"#","E","X","T","I","N","F",":","-","1",",","M","X","C","|","Z","e","t","a">>
\* '#EXTINF:-1,UK|BBC'
L_UK_BBC == <<"#","E","X","T","I","N","F",":","-","1",",","U","K","|","B","B","C">>
\* '#EXTINF:-1 US|Solo'  (no comma)
L_NO_COMMA == <<"#","E","X","T","I","N","F",":","-","1"," ","U","S","|","S","o","l","o">>
\* 'http://a/1'
L_URL_A == <<"h","t","t","p",":","/","/","a","/","1">>
\* 'rtmp://b/2'
L_URL_B == <<"r","t","m","p",":","/","/","b","/","2">>
\* ''
L_BLANK == <<>>
\* b'\xff'
L_UNDECODABLE == <<"0xFF">>
\* '#EXTM3U'
L_HEADER == <<"#","E","X","T","M","3","U">>
\* '#EXTM3U url-tvg="http://g"'
L_HEADER_TVG == <<"#","E","X","T","M","3","U"," ","u","r","l","-","t","v","g","=","\"","h","t","t","p",":","/","/","g","\"">>
\* '<html>'
L_HTML == <<"<","h","t","m","l",">">>

\* the raw lines a response body is made of
BodyLines ==
    {L_US_CNN_NEWS, L_US_US_HBO, L_MX_CANAL_5, L_MXC_ZETA, L_UK_BBC, L_NO_COMMA,
     L_URL_A, L_URL_B, L_BLANK, L_UNDECODABLE}

\* the first raw line of a response body; <<>> is also what next(it, b'') gives
\* for an empty body
FirstLines == {L_HEADER, L_HEADER_TVG, L_HTML, L_BLANK, L_UNDECODABLE}

\* what one requests.get(...) of the fetch loop can end in
FetchOutcomes ==
    {[kind |-> "HTTPError", first_line_raw |-> <<>>],
     [kind |-> "ConnectionError", first_line_raw |-> <<>>]}
    \cup {[kind |-> "ok", first_line_raw |-> f] : f \in FirstLines}

\* what the classification service can answer
LlmReplies ==
    {ReplyText(CAT_USA_News), ReplyText(CAT_Mexico_General),
     ReplyText(<<"B","o","g","u","s">>),
     ReplyNoCandidates, ReplyEmptyCandidates, ReplyRequestException}

\* values of the environment variables USERNAME, PASSWORD, GEMINI_API_KEY
EnvValues == {None, <<"x">>}

\* the number of lines a response body has after its first line, at most
MaxLines == 4

(***************************************************************************)
(* State                                                                   *)
(***************************************************************************)
VARIABLES
    module_globals,      \* the names bound at module level besides those app.py binds
    environ,             \* os.environ: USERNAME, PASSWORD, GEMINI_API_KEY
    pc,                  \* where the request is: "request", "loop", "after_loop",
                         \* "streaming", "closed"
    attempt,             \* get_m3u: the loop variable (iterations completed so far)
    successful_response, \* get_m3u: a response was accepted
    tvg_url,             \* get_m3u: the url-tvg value of the accepted header, or None
    last_error,          \* get_m3u: the diagnostic of the last failed attempt
    call_log,            \* the requests.get calls (with what each ended in) and the
                         \* time.sleep calls of the retry loop, in order
    lines_to_process,    \* the lines spliced in front of the rest of the body
    response,            \* the Response the request got, or None
    gen,                 \* the generator stream_and_categorize(...) of the response
    trace,               \* what the generator's loop consumed and how each iteration ended
    requests             \* the requests served at the same time, each with its own
                         \* get_m3u locals and its own generator (<<>>: a single
                         \* request, held in the variables above)

vars == <<module_globals, environ, pc, attempt, successful_response, tvg_url,
          last_error, call_log, lines_to_process, response, gen, trace, requests>>

\* range(5) at line 249
MAX_ATTEMPTS == 5

NoResponse == [status |-> 0, mimetype |-> "none", body |-> "none", diagnostic |-> "none"]

\* a local of get_m3u outside the call
OutOfScope == "out_of_scope"

InitRequest ==
    /\ environ \in [{"USERNAME", "PASSWORD", "GEMINI_API_KEY"} -> EnvValues]
    /\ pc = "request"
    /\ attempt = 0
    /\ successful_response = FALSE
    /\ tvg_url = None
    /\ last_error = "initial"
    /\ call_log = <<>>
    /\ lines_to_process = <<>>
    /\ response = NoResponse
    /\ gen = new_generator
    /\ trace = <<>>
    /\ requests = <<>>

\* app.py binds neither US_CATEGORY_NAMES nor MEXICO_CATEGORY_NAMES
Init ==
    /\ module_globals = <<>>
    /\ InitRequest

(***************************************************************************)
(* get_m3u (app.py lines 226-285)                                          *)
(***************************************************************************)
\* get_m3u going on to the retry loop whatever the credentials are
CheckCredentials_skipped ==
    /\ pc = "request"
    /\ pc' = "loop"
    /\ UNCHANGED <<requests, module_globals, environ, attempt, successful_response, tvg_url,
                   last_error, call_log, lines_to_process, response, gen, trace>>

\* lines 232-246: the credential check and the initialisation of the locals
CheckCredentials ==
    /\ pc = "request"
    /\ IF is_not_set(environ["USERNAME"]) \/ is_not_set(environ["PASSWORD"])
       THEN /\ response' = [status |-> 500, mimetype |-> "text/plain",
                            body |-> "credentials_not_set", diagnostic |-> "none"]
            /\ pc' = "closed"
       ELSE /\ pc' = "loop"
            /\ UNCHANGED response
    /\ UNCHANGED <<requests, module_globals, environ, attempt, successful_response, tvg_url,
                   last_error, call_log, lines_to_process, gen, trace>>

\* the entries of call_log
GetCall(result) == [call |-> "get", result |-> result]
SleepCall == [call |-> "sleep", result |-> "none"]

\* what an attempt that got a first line ended in
first_line_result(first_line_raw) ==
    IF decode_fails(first_line_raw) THEN "UnicodeDecodeError"
    ELSE IF startswith(strip(decode(first_line_raw)), EXTM3U) THEN "accepted"
    ELSE "no_extm3u"

\* the loop without the time.sleep(5) of line 278
after_failed_attempt_no_backoff(log) ==
    /\ call_log' = log
    /\ attempt' = attempt + 1
    /\ pc' = IF attempt + 1 < MAX_ATTEMPTS THEN "loop" ELSE "after_loop"
    /\ UNCHANGED <<successful_response, tvg_url, lines_to_process, response>>

\* lines 278, 249: time.sleep(5), then the next iteration or the end of the loop
after_failed_attempt(log) ==
    /\ call_log' = log \o <<SleepCall>>
    /\ attempt' = attempt + 1
    /\ pc' = IF attempt + 1 < MAX_ATTEMPTS THEN "loop" ELSE "after_loop"
    /\ UNCHANGED <<successful_response, tvg_url, lines_to_process, response>>

\* lines 249-278: one iteration of the retry loop, whose requests.get ends in `o`
FetchAttempt(o) ==
    /\ pc = "loop"
    /\ attempt < MAX_ATTEMPTS
    /\ LET log == call_log \o <<GetCall(IF o.kind # "ok" THEN o.kind
                                          ELSE first_line_result(o.first_line_raw))>>
       IN
       IF o.kind # "ok"
       THEN \* line 274: requests.exceptions.RequestException
            /\ last_error' = o.kind
            /\ after_failed_attempt(log)
       ELSE IF decode_fails(o.first_line_raw)
       THEN \* line 259: UnicodeDecodeError is not caught and leaves get_m3u
            /\ response' = [status |-> 500, mimetype |-> "text/html",
                            body |-> "unhandled_exception",
                            diagnostic |-> "UnicodeDecodeError"]
            /\ pc' = "closed"
            /\ call_log' = log
            /\ UNCHANGED <<attempt, successful_response, tvg_url, last_error,
                           lines_to_process>>
       ELSE IF startswith(strip(decode(o.first_line_raw)), EXTM3U)
       THEN \* lines 262-269
            /\ successful_response' = TRUE
            /\ tvg_url' = TVG_URL_REGEX_search(strip(decode(o.first_line_raw)))
            /\ lines_to_process' = <<o.first_line_raw>>
            /\ call_log' = log
            /\ pc' = "after_loop"
            /\ UNCHANGED <<attempt, last_error, response>>
       ELSE \* line 271
            /\ last_error' = "no_extm3u"
            /\ after_failed_attempt(log)
    /\ UNCHANGED <<requests, module_globals, environ, gen, trace>>

\* lines 280-285: the Response get_m3u returns.  Its locals end with the call;
\* the generator it hands over keeps lines_to_process, tvg_url and api_key, and
\* call_log is forgotten once the playlist response is returned.
Return ==
    /\ pc = "after_loop"
    /\ IF successful_response
       THEN /\ response' = [status |-> 200, mimetype |-> "application/x-mpegurl",
                            body |-> "generator", diagnostic |-> "none"]
            /\ pc' = "streaming"
       ELSE /\ response' = [status |-> 503, mimetype |-> "text/plain",
                            body |-> "could_not_retrieve", diagnostic |-> last_error]
            /\ pc' = "closed"
    /\ attempt' = 0
    /\ successful_response' = FALSE
    /\ last_error' = OutOfScope
    /\ call_log' = IF successful_response THEN <<>> ELSE call_log
    /\ UNCHANGED <<requests, module_globals, environ, tvg_url, lines_to_process, gen, trace>>

(***************************************************************************)
(* The generator of the response, driven by the server                     *)
(***************************************************************************)
\* lines 120-127: the first next() runs to the yield of the header
GenStart ==
    /\ pc = "streaming"
    /\ gen.state = "created"
    /\ gen' = [gen EXCEPT !.state = "suspended", !.at = "line_132",
                           !.yielded = <<header_line(tvg_url)>>]
    /\ UNCHANGED <<requests, module_globals, environ, pc, attempt, successful_response, tvg_url,
                   last_error, call_log, lines_to_process, response, trace>>

\* the entry of the trace for an iteration that has not got an answer of the
\* classification service
NoReply == [kind |-> "none", text |-> <<>>]

\* one iteration of the loop at line 132 for raw_line, as far as the generator
\* runs without waiting
consume(raw_line) ==
    LET r == loop_body(gen, raw_line, environ["GEMINI_API_KEY"], module_globals)
    IN  /\ gen' = r.gen
        /\ trace' = Append(trace, [raw |-> raw_line, outcome |-> r.outcome,
                                   contacted |-> r.contacted, reply |-> NoReply])
        /\ pc' = IF r.gen.state = "raised" THEN "closed" ELSE pc

\* the loop takes the line spliced back by get_m3u (line 268)
ReadSplicedLine ==
    /\ pc = "streaming"
    /\ gen.state = "suspended"
    /\ gen.at = "line_132"
    /\ lines_to_process # <<>>
    /\ consume(Head(lines_to_process))
    /\ lines_to_process' = Tail(lines_to_process)
    /\ UNCHANGED <<requests, module_globals, environ, attempt, successful_response, tvg_url,
                   last_error, call_log, response>>

\* the loop takes the next line of the response body
ReadBodyLine(raw_line) ==
    /\ pc = "streaming"
    /\ gen.state = "suspended"
    /\ gen.at = "line_132"
    /\ lines_to_process = <<>>
    /\ Len(trace) <= MaxLines
    /\ consume(raw_line)
    /\ UNCHANGED <<requests, module_globals, environ, attempt, successful_response, tvg_url,
                   last_error, call_log, lines_to_process, response>>

\* the call of requests.post made for the record under way ends in `reply`
LlmReply(reply) ==
    /\ pc = "streaming"
    /\ gen.state = "suspended"
    /\ gen.at = "line_97"
    /\ LET r == after_post(gen, environ["GEMINI_API_KEY"], reply)
       IN  /\ gen' = r.gen
           /\ trace' = [trace EXCEPT ![Len(trace)] =
                            [@ EXCEPT !.outcome = r.outcome, !.reply = reply]]
           /\ pc' = IF r.gen.state = "raised" THEN "closed" ELSE pc
    /\ UNCHANGED <<requests, module_globals, environ, attempt, successful_response, tvg_url,
                   last_error, call_log, lines_to_process, response>>

\* the server takes the metadata line and asks for the next value: the generator
\* yields the locator line (line 212)
ResumeAtLine211 ==
    /\ pc = "streaming"
    /\ gen.state = "suspended"
    /\ gen.at = "line_211"
    /\ gen' = resume_at_211(gen)
    /\ trace' = [trace EXCEPT ![Len(trace)].outcome = "emitted"]
    /\ UNCHANGED <<requests, module_globals, environ, pc, attempt, successful_response,
                   tvg_url, last_error, call_log, lines_to_process, response>>

\* the server takes the locator line and asks for the next value: the generator
\* clears current_ext (line 214) and is at the for statement again
ResumeAtLine212 ==
    /\ pc = "streaming"
    /\ gen.state = "suspended"
    /\ gen.at = "line_212"
    /\ gen' = resume_at_212(gen)
    /\ UNCHANGED <<requests, module_globals, environ, pc, attempt, successful_response,
                   tvg_url, last_error, call_log, lines_to_process, response, trace>>

\* the body is exhausted: the for loop ends and the generator returns
EndOfBody ==
    /\ pc = "streaming"
    /\ gen.state = "suspended"
    /\ gen.at = "line_132"
    /\ lines_to_process = <<>>
    /\ gen' = [gen EXCEPT !.state = "finished"]
    /\ pc' = "closed"
    /\ UNCHANGED <<requests, module_globals, environ, attempt, successful_response, tvg_url,
                   last_error, call_log, lines_to_process, response, trace>>

\* The steps of a request on app.py as it is.  With neither region list bound
\* every iteration that gets to line 156 or 160 ends there in NameError, so no
\* generator gets into requests.post or to the yields of lines 211 and 212.
Next ==
    \/ CheckCredentials
    \/ \E o \in FetchOutcomes : FetchAttempt(o)
    \/ Return
    \/ GenStart
    \/ ReadSplicedLine
    \/ \E raw_line \in BodyLines : ReadBodyLine(raw_line)
    \/ EndOfBody

Spec == Init /\ [][Next]_vars

(***************************************************************************)
(* The module with the two region lists bound.  app.py reads them at lines *)
(* 156 and 160 and binds them nowhere; the lists here follow the           *)
(* specification (section 4.3: the region's categories plus the            *)
(* region-agnostic ones, in table order).                                  *)
(***************************************************************************)
US_CATEGORY_NAMES ==
    << CAT_USA_News, CAT_USA_Movies, CAT_USA_Kids, CAT_US_LATINO, CAT_Documentary,
       CAT_Adult, CAT_Sports, CAT_USA_General >>

MEXICO_CATEGORY_NAMES ==
    << CAT_Mexico_News, CAT_Mexico_Movies, CAT_Mexico_Kids, CAT_Mexico_General,
       CAT_Sports >>

InitBound ==
    /\ module_globals = [US_CATEGORY_NAMES |-> US_CATEGORY_NAMES,
                         MEXICO_CATEGORY_NAMES |-> MEXICO_CATEGORY_NAMES]
    /\ InitRequest

\* the steps of a request when the lists are bound
NextBound ==
    \/ CheckCredentials
    \/ \E o \in FetchOutcomes : FetchAttempt(o)
    \/ Return
    \/ GenStart
    \/ ReadSplicedLine
    \/ \E raw_line \in BodyLines : ReadBodyLine(raw_line)
    \/ \E reply \in LlmReplies : LlmReply(reply)
    \/ ResumeAtLine211
    \/ ResumeAtLine212
    \/ EndOfBody

SpecBound == InitBound /\ [][NextBound]_vars

\* the call of get_m3u alone, up to the Response it returns
NextGetM3u ==
    \/ CheckCredentials
    \/ \E o \in FetchOutcomes : FetchAttempt(o)
    \/ Return

SpecGetM3u == Init /\ [][NextGetM3u]_vars

(***************************************************************************)
(* The module with the region lists bound, on bodies made of fewer kinds   *)
(* of lines: a record of each region, an out-of-scope and a malformed      *)
(* metadata line, two locators and an undecodable line.                    *)
(***************************************************************************)
RecordBodyLines ==
    {L_US_CNN_NEWS, L_MX_CANAL_5, L_UK_BBC, L_NO_COMMA, L_URL_A, L_URL_B,
     L_UNDECODABLE}

NextRecords ==
    \/ CheckCredentials
    \/ \E o \in FetchOutcomes : FetchAttempt(o)
    \/ Return
    \/ GenStart
    \/ ReadSplicedLine
    \/ \E raw_line \in RecordBodyLines : ReadBodyLine(raw_line)
    \/ \E reply \in LlmReplies : LlmReply(reply)
    \/ ResumeAtLine211
    \/ ResumeAtLine212
    \/ EndOfBody

SpecRecords == InitBound /\ [][NextRecords]_vars

(***************************************************************************)
(* Bodies whose metadata lines have commas in an attribute value or in the *)
(* display name.                                                           *)
(***************************************************************************)
\* '#EXTINF:-1 tvg-name="A,B",US|HBO'
L_US_COMMA_IN_ATTRIBUTE == <<"#","E","X","T","I","N","F",":","-","1"," ","t","v","g","-","n","a","m","e","=","\"","A",",","B","\"",",","U","S","|","H","B","O">>
\* '#EXTINF:-1,UK|BBC, One'
L_UK_COMMA_IN_NAME == <<"#","E","X","T","I","N","F",":","-","1",",","U","K","|","B","B","C",","," ","O","n","e">>
\* '#EXTINF:-1,MX|Cine, Uno'
L_MX_COMMA_IN_NAME == <<"#","E","X","T","I","N","F",":","-","1",",","M","X","|","C","i","n","e",","," ","U","n","o">>

CommaBodyLines ==
    {L_US_COMMA_IN_ATTRIBUTE, L_UK_COMMA_IN_NAME, L_MX_COMMA_IN_NAME, L_URL_A}

NextCommas ==
    \/ CheckCredentials
    \/ \E o \in FetchOutcomes : FetchAttempt(o)
    \/ Return
    \/ GenStart
    \/ ReadSplicedLine
    \/ \E raw_line \in CommaBodyLines : ReadBodyLine(raw_line)
    \/ EndOfBody

SpecCommas == Init /\ [][NextCommas]_vars

(***************************************************************************)
(* Several requests at once.  Flask serves each request by its own call of *)
(* get_m3u, whose locals (lines 243-246, 249) and whose generator (locals  *)
(* of stream_and_categorize, lines 120, 127) belong to that call; the      *)
(* calls share the module globals and os.environ, which they only read.    *)
(* Each step below is one step of one request, in any interleaving.        *)
(***************************************************************************)
ConcRequestIds == {1, 2}

\* what a requests.get of these requests can end in
ConcFetchOutcomes ==
    {[kind |-> "HTTPError", first_line_raw |-> <<>>],
     [kind |-> "ok", first_line_raw |-> L_HEADER_TVG]}

\* the lines the bodies of these requests are made of
ConcBodyLines == {L_US_CNN_NEWS, L_URL_A, L_URL_B}

\* the number of lines the body of such a request has after its first line, at most
MaxConcLines == 2

\* a call of get_m3u after its credential check: the locals of lines 243-246,
\* the generator it will hand over, what the call has fetched and what its
\* generator has consumed
new_request ==
    [pc |-> "loop", attempt |-> 0, successful_response |-> FALSE, tvg_url |-> None,
     last_error |-> "initial", lines_to_process |-> <<>>, status |-> 0,
     gen |-> new_generator, fetched |-> <<>>, consumed |-> <<>>]

InitConcurrent ==
    /\ module_globals = [US_CATEGORY_NAMES |-> US_CATEGORY_NAMES,
                         MEXICO_CATEGORY_NAMES |-> MEXICO_CATEGORY_NAMES]
    /\ environ \in {e \in [{"USERNAME", "PASSWORD", "GEMINI_API_KEY"} -> EnvValues] :
                        ~is_not_set(e["USERNAME"]) /\ ~is_not_set(e["PASSWORD"])}
    /\ pc = "request"
    /\ attempt = 0
    /\ successful_response = FALSE
    /\ tvg_url = None
    /\ last_error = "initial"
    /\ call_log = <<>>
    /\ lines_to_process = <<>>
    /\ response = NoResponse
    /\ gen = new_generator
    /\ trace = <<>>
    /\ requests = [r \in ConcRequestIds |-> new_request]

\* the variables of the single request stay as they are
single_request_unchanged ==
    UNCHANGED <<module_globals, environ, pc, attempt, successful_response, tvg_url,
                last_error, call_log, lines_to_process, response, gen, trace>>

\* lines 249-278 for the call q, whose requests.get ends in `o`
fetch_attempt(q, o) ==
    LET failed(error) ==
            [q EXCEPT !.last_error = error, !.attempt = @ + 1,
                      !.pc = IF q.attempt + 1 < MAX_ATTEMPTS THEN "loop" ELSE "after_loop",
                      !.fetched = Append(@, o)]
    IN  IF o.kind # "ok" THEN failed(o.kind)
        ELSE IF decode_fails(o.first_line_raw)
        THEN [q EXCEPT !.status = 500, !.pc = "closed", !.fetched = Append(@, o)]
        ELSE IF startswith(strip(decode(o.first_line_raw)), EXTM3U)
        THEN [q EXCEPT !.successful_response = TRUE,
                       !.tvg_url = TVG_URL_REGEX_search(strip(decode(o.first_line_raw))),
                       !.lines_to_process = <<o.first_line_raw>>,
                       !.pc = "after_loop",
                       !.fetched = Append(@, o)]
        ELSE failed("no_extm3u")

ConcFetchAttempt(r, o) ==
    /\ requests[r].pc = "loop"
    /\ requests[r].attempt < MAX_ATTEMPTS
    /\ requests' = [requests EXCEPT ![r] = fetch_attempt(@, o)]
    /\ single_request_unchanged

\* lines 280-285 for the call of request r; its locals end with the call
ConcReturn(r) ==
    /\ requests[r].pc = "after_loop"
    /\ requests' = [requests EXCEPT ![r] =
           [@ EXCEPT !.status = IF requests[r].successful_response THEN 200 ELSE 503,
                     !.pc = IF requests[r].successful_response
                            THEN "streaming" ELSE "closed",
                     !.attempt = 0, !.successful_response = FALSE,
                     !.last_error = OutOfScope, !.fetched = <<>>]]
    /\ single_request_unchanged

\* lines 120-127 for the generator of request r
ConcGenStart(r) ==
    /\ requests[r].pc = "streaming"
    /\ requests[r].gen.state = "created"
    /\ requests' = [requests EXCEPT ![r].gen =
           [@ EXCEPT !.state = "suspended", !.at = "line_132",
                     !.yielded = <<header_line(requests[r].tvg_url)>>]]
    /\ single_request_unchanged

\* the seen_streams of every generator taken together
seen_streams_shared(reqs, r) ==
    UNION {reqs[other].gen.seen_streams : other \in DOMAIN reqs}

\* line 120: seen_streams = set(), a local of the generator of request r
seen_streams_of(reqs, r) == reqs[r].gen.seen_streams

\* lines 132-217: the generator of request r consumes raw_line (the spliced
\* first line or a line of the body), as far as it runs without waiting
ConcReadLine(r, raw_line) ==
    LET q == requests[r]
        g == [q.gen EXCEPT !.seen_streams = seen_streams_of(requests, r)]
        res == loop_body(g, raw_line, environ["GEMINI_API_KEY"], module_globals)
    IN  /\ q.pc = "streaming"
        /\ q.gen.state = "suspended"
        /\ q.gen.at = "line_132"
        /\ IF q.lines_to_process # <<>>
           THEN raw_line = Head(q.lines_to_process)
           ELSE raw_line \in ConcBodyLines /\ Len(q.consumed) <= MaxConcLines
        /\ requests' = [requests EXCEPT ![r] =
               [q EXCEPT !.gen = res.gen,
                         !.lines_to_process = IF @ # <<>> THEN Tail(@) ELSE @,
                         !.consumed = Append(@, [raw |-> raw_line, reply |-> NoReply]),
                         !.pc = IF res.gen.state = "raised" THEN "closed" ELSE @]]
        /\ single_request_unchanged

\* the call of requests.post made by the generator of request r ends in `reply`
ConcLlmReply(r, reply) ==
    LET q == requests[r]
        res == after_post(q.gen, environ["GEMINI_API_KEY"], reply)
    IN  /\ q.pc = "streaming"
        /\ q.gen.state = "suspended"
        /\ q.gen.at = "line_97"
        /\ requests' = [requests EXCEPT ![r] =
               [q EXCEPT !.gen = res.gen,
                         !.consumed = [@ EXCEPT ![Len(@)].reply = reply],
                         !.pc = IF res.gen.state = "raised" THEN "closed" ELSE @]]
        /\ single_request_unchanged

\* the server asks the generator of request r, suspended at line 211 or at
\* line 212, for its next value
ConcResume(r) ==
    LET q == requests[r]
    IN  /\ q.pc = "streaming"
        /\ q.gen.state = "suspended"
        /\ q.gen.at \in {"line_211", "line_212"}
        /\ requests' = [requests EXCEPT ![r].gen =
               IF q.gen.at = "line_211" THEN resume_at_211(q.gen)
               ELSE resume_at_212(q.gen)]
        /\ single_request_unchanged

\* the body of request r is exhausted
ConcEndOfBody(r) ==
    /\ requests[r].pc = "streaming"
    /\ requests[r].gen.state = "suspended"
    /\ requests[r].gen.at = "line_132"
    /\ requests[r].lines_to_process = <<>>
    /\ requests' = [requests EXCEPT ![r] =
           [@ EXCEPT !.gen.state = "finished", !.pc = "closed"]]
    /\ single_request_unchanged

NextConcurrent ==
    \/ \E r \in ConcRequestIds : \E o \in ConcFetchOutcomes : ConcFetchAttempt(r, o)
    \/ \E r \in ConcRequestIds : ConcReturn(r)
    \/ \E r \in ConcRequestIds : ConcGenStart(r)
    \/ \E r \in ConcRequestIds :
           \E raw_line \in ConcBodyLines \cup {L_HEADER_TVG} : ConcReadLine(r, raw_line)
    \/ \E r \in ConcRequestIds : \E reply \in LlmReplies : ConcLlmReply(r, reply)
    \/ \E r \in ConcRequestIds : ConcResume(r)
    \/ \E r \in ConcRequestIds : ConcEndOfBody(r)

SpecConcurrent == InitConcurrent /\ [][NextConcurrent]_vars

(***************************************************************************)
(* Reading the output and the trace                                        *)
(***************************************************************************)
\* the record pairs yielded so far: yielded[1] is the header, pair k follows; a
\* metadata line whose locator line is not yielded yet is not a pair
NumPairs == IF gen.yielded = <<>> THEN 0 ELSE (Len(gen.yielded) - 1) \div 2
out_meta(k) == gen.yielded[2 * k]
out_loc(k) == gen.yielded[2 * k + 1]

\* the text of the i-th consumed line, as the loop sees it (it decodes)
trace_line(i) == strip(decode(trace[i].raw))

\* the i-th consumed line is a metadata line
is_metadata_at(i) ==
    ~decode_fails(trace[i].raw) /\ startswith(trace_line(i), EXTINF)

\* the i-th consumed line is a locator line
is_locator_at(i) ==
    ~decode_fails(trace[i].raw) /\ is_locator(trace_line(i))

\* the i-th consumed line is a metadata line that splits and carries a routing prefix
is_admitted_metadata_at(i) ==
    /\ is_metadata_at(i)
    /\ EXTINF_REGEX_matches(trace_line(i))
    /\ region_of(upper(strip(EXTINF_REGEX_group2(trace_line(i))))) # None

\* the locator lines of the pairs yielded so far
emitted_locators == {out_loc(k) : k \in 1..NumPairs}

\* the generator took a line in this step
consumed_a_line == Len(trace') = Len(trace) + 1

(***************************************************************************)
(* C1: the output of a pass never holds two record pairs with the same     *)
(* locator line, and a record whose locator is already in seen_streams is  *)
(* rejected: the step that consumes it yields nothing and raises nothing.  *)
(***************************************************************************)
C1_no_two_pairs_share_a_locator ==
    \A i, j \in 1..NumPairs : i # j => out_loc(i) # out_loc(j)

C1_seen_locator_is_rejected ==
    (/\ consumed_a_line
     /\ gen.current_ext # None
     /\ ~decode_fails(trace'[Len(trace')].raw)
     /\ strip(decode(trace'[Len(trace')].raw)) \in gen.seen_streams)
    => /\ gen'.yielded = gen.yielded
       /\ gen'.state = "suspended"
       /\ gen'.seen_streams = gen.seen_streams

\* C1: in every step a record whose locator is already in seen_streams is rejected
\* without emission and without error, and no two emitted pairs share a locator.
C1_DedupInvariant ==
    [][C1_seen_locator_is_rejected /\ C1_no_two_pairs_share_a_locator']_vars

\* a second admitted record with the locator of an emitted pair has been consumed
C1_Witness ==
    /\ Len(trace) >= 5
    /\ is_admitted_metadata_at(Len(trace) - 1)
    /\ is_locator_at(Len(trace))
    /\ trace_line(Len(trace)) \o NL \in emitted_locators
    /\ \E i \in 1..(Len(trace) - 2) : trace[i].raw = trace[Len(trace)].raw
    /\ trace[Len(trace)].outcome = "duplicate"
    /\ NumPairs = 1
    /\ gen.state = "suspended"

(***************************************************************************)
(* C2: once the generator has started, no line and no record makes it end  *)
(* in an exception.                                                        *)
(***************************************************************************)
\* C2: the generator never ends in an exception.
C2_StreamNeverAborts == gen.state # "raised"

(***************************************************************************)
(* C3: a metadata line is paired only with the locator line that directly  *)
(* follows it: whenever the loop takes the record branch for a locator,    *)
(* the line consumed just before it is the pending metadata line.          *)
(***************************************************************************)
\* how far an iteration that took the record branch (line 142) has got: it
\* ended ("emitted": both lines of the pair are yielded), or it is under way, in
\* requests.post ("asking") or suspended at line 211 ("yielding")
RecordOutcomes ==
    {"malformed", "out_of_scope", "NameError", "duplicate", "IndexError", "emitted",
     "asking", "yielding"}

\* the iteration for the line at position j is under way
is_under_way_at(j) == trace[j].outcome \in {"asking", "yielding"}

\* C3: a record is formed only from a locator and the metadata line consumed just
\* before it.
C3_PairedOnlyWithAdjacentLocator ==
    \A j \in 1..Len(trace) :
        trace[j].outcome \in RecordOutcomes => j > 1 /\ is_metadata_at(j - 1)

(***************************************************************************)
(* C4: every emitted metadata line carries exactly one group-title         *)
(* attribute.                                                              *)
(***************************************************************************)
GROUP_TITLE_ATTR == <<"g","r","o","u","p","-","t","i","t","l","e","=","\"">>

group_title_count(text) == Cardinality(occurrences(GROUP_TITLE_ATTR, lower(text)))

\* C4: every emitted metadata line has exactly one group-title attribute.
C4_ExactlyOneGroupTitle ==
    \A k \in 1..NumPairs : group_title_count(out_meta(k)) = 1

(***************************************************************************)
(* C5: the display name of an emitted metadata line never starts with a    *)
(* routing prefix.                                                         *)
(***************************************************************************)
\* the display name of an emitted metadata line: what follows the '",' that
\* closes the group-title attribute written at line 209, without the newline
emitted_display_name(text) ==
    LET opens == occurrences(GROUP_TITLE_OPEN, text)
        open == CHOOSE i \in opens : \A j \in opens : j <= i
        closes == {i \in occurrences(GROUP_TITLE_CLOSE, text) : i > open}
        close == CHOOSE i \in closes : \A j \in closes : i <= j
    IN  SubSeq(text, close + Len(GROUP_TITLE_CLOSE) + 1, Len(text) - 1)

\* C5: no emitted display name starts with 'US|', 'MX|' or 'MXC|'.
C5_NoRoutingPrefixLeft ==
    \A k \in 1..NumPairs : \A p \in 1..Len(ACCEPTABLE_PREFIXES) :
        ~startswith(emitted_display_name(out_meta(k)), ACCEPTABLE_PREFIXES[p])

(***************************************************************************)
(* C6: an admitted record whose display name matches no keyword, with no   *)
(* external classifier configured, is emitted with the general category of *)
(* its region.                                                             *)
(***************************************************************************)
\* the display name of the metadata line consumed at position i
display_name_at(i) == strip(EXTINF_REGEX_group2(trace_line(i)))
region_at(i) == region_of(upper(display_name_at(i)))

\* the region's category list as the specification gives it
listed_categories(region_prefix) ==
    IF region_prefix = REGION_US THEN US_CATEGORY_NAMES ELSE MEXICO_CATEGORY_NAMES

\* positions i, i+1 hold an admitted metadata line and a locator not consumed before
is_new_admitted_record_at(i) ==
    /\ i + 1 <= Len(trace)
    /\ is_admitted_metadata_at(i)
    /\ is_locator_at(i + 1)
    /\ ~is_under_way_at(i + 1)
    /\ \A h \in 1..(i - 1) : trace[h].raw # trace[i + 1].raw

\* some pair of the output has this locator and this category
emitted_with(locator, category) ==
    \E k \in 1..NumPairs :
        /\ out_loc(k) = locator \o NL
        /\ contains(GROUP_TITLE_OPEN \o category \o GROUP_TITLE_CLOSE, out_meta(k))

\* C6: a new admitted record without keyword match and without api_key is in the
\* output with 'USA General' (US|) or 'Mexico General' (MX|, MXC|).
C6_UnmatchedRecordGetsRegionGeneral ==
    \A i \in 1..Len(trace) :
        (/\ is_new_admitted_record_at(i)
         /\ environ["GEMINI_API_KEY"] = None
         /\ keyword_category(listed_categories(region_at(i)),
                             lower(display_name_at(i))) = None)
        => emitted_with(trace_line(i + 1), fallback_category(region_at(i)))

(***************************************************************************)
(* C7: a value returned by the external classifier becomes the record's    *)
(* category only if it is in the category set permitted for the record's   *)
(* region (the set the request names); otherwise the record gets the       *)
(* fallback category.                                                      *)
(***************************************************************************)
\* C7: a returned label outside the region's permitted set leaves the record with
\* the fallback category.
C7_OnlyPermittedLabelAccepted ==
    \A i \in 1..(Len(trace) - 1) :
        (/\ trace[i + 1].contacted
         /\ trace[i + 1].outcome = "emitted"
         /\ ~in_list(strip(trace[i + 1].reply.text), target_set(region_at(i))))
        => emitted_with(trace_line(i + 1), fallback_category(region_at(i)))

(***************************************************************************)
(* C8: the fetch loop makes at most 5 attempts, with one backoff wait      *)
(* between consecutive attempts, and stops at the first attempt that gets  *)
(* a valid header; a request that ends with status 503 has made exactly 5  *)
(* attempts, each followed by a wait, none of them accepted, carries the   *)
(* diagnostic of the last one and has started no playlist stream.  When    *)
(* every attempt ends in HTTP 503 the request ends that way.               *)
(***************************************************************************)
get_calls == {i \in 1..Len(call_log) : call_log[i].call = "get"}

all_attempts_got(result) == \A i \in get_calls : call_log[i].result = result

\* C8: at most 5 attempts, a wait after each failed one, none after an accepted
\* one; status 503 only after exactly 5 failed attempts, with the last diagnostic.
C8_FetchLoop ==
    /\ Cardinality(get_calls) <= 5
    /\ \A i \in 1..Len(call_log) :
           call_log[i].call = (IF i % 2 = 1 THEN "get" ELSE "sleep")
    /\ \A i \in get_calls : call_log[i].result = "accepted" => i = Len(call_log)
    /\ response.status = 503 =>
           /\ Cardinality(get_calls) = 5
           /\ Len(call_log) = 10
           /\ \A i \in get_calls : call_log[i].result # "accepted"
           /\ response.diagnostic = call_log[9].result
           /\ response.body = "could_not_retrieve"
           /\ gen = new_generator
    /\ (pc = "closed" /\ call_log # <<>> /\ all_attempts_got("HTTPError")) =>
           /\ Cardinality(get_calls) = 5
           /\ response.status = 503
           /\ response.diagnostic = "HTTPError"

\* five attempts that all ended in HTTP 503, and the 503 response
C8_Witness ==
    /\ pc = "closed"
    /\ response.status = 503
    /\ Cardinality(get_calls) = 5
    /\ all_attempts_got("HTTPError")

(***************************************************************************)
(* C9: every attempt that does not get a valid header is a failed attempt: *)
(* it is followed by the backoff wait and the next attempt, and a request  *)
(* with credentials ends in failure only after 5 attempts, with status 503.*)
(***************************************************************************)
\* C9: every attempt without a valid header is followed by the wait, and the
\* request fails only with status 503 after 5 attempts.
C9_EveryBadResponseIsRetried ==
    /\ \A i \in get_calls :
           call_log[i].result # "accepted" =>
               i < Len(call_log) /\ call_log[i + 1].call = "sleep"
    /\ (response.status \notin {0, 200} /\ response.body # "credentials_not_set") =>
           response.status = 503 /\ Cardinality(get_calls) = 5

(***************************************************************************)
(* C10: for a body made of the header and then N well-formed pairs, all    *)
(* with an accepted prefix, pairwise distinct locators and a keyword match *)
(* in their region, the output holds exactly N pairs, the k-th with the    *)
(* locator of the k-th input pair and the category of the keyword table.   *)
(***************************************************************************)
\* positions 2k, 2k+1 of the trace hold the k-th pair of such a body
is_matching_pair_at(i) ==
    /\ is_admitted_metadata_at(i)
    /\ is_locator_at(i + 1)
    /\ keyword_category(listed_categories(region_at(i)), lower(display_name_at(i))) # None

is_well_formed_body(n) ==
    /\ Len(trace) = 2 * n + 1
    /\ ~is_under_way_at(Len(trace))
    /\ startswith(trace_line(1), EXTM3U)
    /\ \A k \in 1..n : is_matching_pair_at(2 * k)
    /\ \A k, m \in 1..n : k # m => trace_line(2 * k + 1) # trace_line(2 * m + 1)

\* C10: a body of N well-formed, admitted, keyword-matched pairs with distinct
\* locators gives exactly those N pairs, in order, with the table's categories.
C10_WellFormedBodyRoundTrip ==
    \A n \in 1..Len(trace) :
        is_well_formed_body(n) =>
            /\ NumPairs = n
            /\ \A k \in 1..n :
                   /\ out_loc(k) = trace_line(2 * k + 1) \o NL
                   /\ contains(GROUP_TITLE_OPEN
                                 \o keyword_category(listed_categories(region_at(2 * k)),
                                                     lower(display_name_at(2 * k)))
                                 \o GROUP_TITLE_CLOSE, out_meta(k))

(***************************************************************************)
(* C11: the header is yielded first, before any line is consumed; the      *)
(* output only grows at its end; a pair is yielded in the very iteration   *)
(* that consumes its locator, from the metadata pending at that moment, so *)
(* the pairs are in the order of the input pairs they come from.           *)
(***************************************************************************)
\* the positions of the trace whose iteration yielded a pair, and the k-th of them
emitted_positions == {j \in 1..Len(trace) : trace[j].outcome = "emitted"}

position_of_pair(k) ==
    CHOOSE j \in emitted_positions :
        Cardinality({h \in emitted_positions : h <= j}) = k

C11_header_first ==
    /\ gen.state = "created" => gen.yielded = <<>> /\ trace = <<>>
    /\ gen.state # "created" =>
           gen.yielded # <<>> /\ gen.yielded[1] = header_line(tvg_url)

C11_pairs_in_input_order ==
    /\ NumPairs = Cardinality(emitted_positions)
    /\ \A k \in 1..NumPairs :
           out_loc(k) = trace_line(position_of_pair(k)) \o NL

\* a line is consumed only when no pair is half yielded, and the iteration yields
\* at most the metadata line built from the pending metadata; any other step
\* yields nothing, or the header before any line is read, or the locator line of
\* the line consumed last, right after its metadata line
C11_pair_yielded_when_its_locator_is_consumed ==
    IF consumed_a_line
    THEN /\ Len(gen.yielded) % 2 = 1
         /\ \/ gen'.yielded = gen.yielded
            \/ /\ gen.current_ext # None
               /\ gen'.yielded = Append(gen.yielded, gen'.yielded[Len(gen'.yielded)])
               /\ startswith(gen'.yielded[Len(gen'.yielded)],
                             strip(EXTINF_REGEX_group1(gen.current_ext)))
    ELSE \/ gen'.yielded = gen.yielded
         \/ gen.state = "created" /\ trace = <<>>
         \/ /\ gen'.yielded = Append(gen.yielded, gen'.yielded[Len(gen'.yielded)])
            /\ trace' # <<>>
            /\ IF Len(gen.yielded) % 2 = 0
               THEN gen'.yielded[Len(gen'.yielded)]
                        = strip(decode(trace'[Len(trace')].raw)) \o NL
               ELSE /\ trace[Len(trace)].outcome = "asking"
                    /\ startswith(gen'.yielded[Len(gen'.yielded)],
                                  strip(EXTINF_REGEX_group1(gen.current_ext)))

\* C11: the header comes first and before any line is read, and every pair is
\* appended to the output by the iteration that consumes its locator, before the
\* next line is consumed, so the pairs keep the order of the input.
C11_StableOrder ==
    /\ [](C11_header_first /\ C11_pairs_in_input_order)
    /\ [][C11_pair_yielded_when_its_locator_is_consumed]_vars

\* two pairs with different locators have been yielded, from lines 2-3 and 4-5
C11_Witness ==
    /\ NumPairs = 2
    /\ out_loc(1) # out_loc(2)
    /\ emitted_positions = {3, 5}
    /\ out_loc(1) = trace_line(3) \o NL
    /\ out_loc(2) = trace_line(5) \o NL

(***************************************************************************)
(* C12: a locator consumed while no metadata is pending changes nothing;   *)
(* an iteration that forms a record leaves no metadata pending; so every   *)
(* metadata line is paired with at most one locator.                       *)
(***************************************************************************)
\* the text of the line consumed in this step
line_consumed == strip(decode(trace'[Len(trace')].raw))

consumes_a_locator ==
    /\ consumed_a_line
    /\ ~decode_fails(trace'[Len(trace')].raw)
    /\ is_locator(line_consumed)

C12_locator_without_pending_is_ignored ==
    (consumes_a_locator /\ gen.current_ext = None) => gen' = gen

\* when the iteration that took the record branch is over, nothing is pending
C12_paired_locator_clears_pending ==
    (/\ trace # <<>>
     /\ trace[Len(trace)].outcome \in RecordOutcomes
     /\ gen.state \in {"suspended", "finished"}
     /\ gen.at = "line_132")
    => gen.current_ext = None

\* between two iterations that formed a record a metadata line was consumed
C12_one_locator_per_metadata ==
    \A i, j \in 1..Len(trace) :
        (i < j /\ trace[i].outcome \in RecordOutcomes
               /\ trace[j].outcome \in RecordOutcomes)
        => \E m \in (i + 1)..(j - 1) : is_metadata_at(m)

\* C12: a locator with no metadata pending is ignored, a paired locator clears
\* the pending slot, and a metadata line is paired with at most one locator.
C12_AtMostOneLocatorPerMetadata ==
    /\ [](C12_one_locator_per_metadata /\ C12_paired_locator_clears_pending)
    /\ [][C12_locator_without_pending_is_ignored]_vars

\* metadata, locator A, locator B: the pair with A was yielded, B was ignored
C12_Witness ==
    /\ Len(trace) = 4
    /\ is_admitted_metadata_at(2)
    /\ trace[3].outcome = "emitted"
    /\ is_locator_at(4)
    /\ trace[4].raw # trace[3].raw
    /\ trace[4].outcome = "ignored"
    /\ gen.current_ext = None
    /\ NumPairs = 1
    /\ out_loc(1) = trace_line(3) \o NL

(***************************************************************************)
(* C13: the output starts with the header line, which carries the url-tvg  *)
(* value of the source header when that header has one; no later line is a *)
(* header; after the header the output is pairs of one metadata line and   *)
(* one locator line that begins with 'http' or 'rtmp'.                     *)
(***************************************************************************)
\* the first line of the accepted response body, as get_m3u read it
source_header ==
    strip(decode(IF trace # <<>> THEN trace[1].raw ELSE Head(lines_to_process)))

\* the value of the first url-tvg="..." attribute of a header line; None when
\* the line has no such attribute or the attribute is empty
url_tvg_value(text) ==
    LET opens == occurrences(<<"u","r","l","-","t","v","g","=","\"">>, lower(text))
    IN  IF opens = {} THEN None
        ELSE LET first == 10 + CHOOSE i \in opens : \A j \in opens : i <= j
                 quotes == {e \in first..Len(text) : text[e] = "\""}
             IN  IF quotes = {} \/ first \in quotes THEN None
                 ELSE SubSeq(text, first, (CHOOSE e \in quotes : \A f \in quotes : e <= f) - 1)

\* an output line: one text line, ended by its only newline
is_one_line(text) ==
    /\ text # <<>>
    /\ text[Len(text)] = "\n"
    /\ \A i \in 1..(Len(text) - 1) : text[i] \notin {"\n", "\r"}

\* C13: header first and only first, with the source's url-tvg value; then
\* metadata lines and locator lines in turn, the last metadata line without its
\* locator line only while the generator is suspended between the two yields.
C13_OutputDocumentShape ==
    gen.yielded # <<>> =>
        /\ gen.yielded[1] =
               (IF url_tvg_value(source_header) = None THEN EXTM3U \o NL
                ELSE EXTM3U \o <<" ","u","r","l","-","t","v","g","=","\"">>
                            \o url_tvg_value(source_header) \o <<"\"">> \o NL)
        /\ Len(gen.yielded) % 2 = 0 <=> (gen.state = "suspended" /\ gen.at = "line_211")
        /\ \A i \in 1..Len(gen.yielded) : is_one_line(gen.yielded[i])
        /\ \A i \in 2..Len(gen.yielded) :
               /\ ~startswith(gen.yielded[i], EXTM3U)
               /\ IF i % 2 = 0 THEN startswith(gen.yielded[i], EXTINF)
                  ELSE is_locator(gen.yielded[i])

\* a document whose source header had a url-tvg value, with the spliced header
\* consumed and a pair yielded
C13_Witness ==
    /\ trace # <<>>
    /\ lines_to_process = <<>>
    /\ url_tvg_value(source_header) = <<"h","t","t","p",":","/","/","g">>
    /\ NumPairs >= 1
    /\ gen.state = "finished"

(***************************************************************************)
(* C14: a request without username or without password ends at once in    *)
(* the configuration error, with no requests.get and no time.sleep; the    *)
(* configuration error is never reached after a fetch attempt.             *)
(***************************************************************************)
credentials_absent ==
    is_not_set(environ["USERNAME"]) \/ is_not_set(environ["PASSWORD"])

\* C14: without credentials the request ends in the configuration error with no
\* network call, and the configuration error never follows a fetch attempt.
C14_NoFetchWithoutCredentials ==
    /\ (credentials_absent /\ pc # "request") =>
           /\ pc = "closed"
           /\ response.body = "credentials_not_set"
    /\ credentials_absent => call_log = <<>> /\ attempt = 0
    /\ response.body = "credentials_not_set" =>
           /\ credentials_absent
           /\ response.status = 500
           /\ call_log = <<>>
           /\ attempt = 0
           /\ ~successful_response
           /\ gen = new_generator

\* a request with a username and no password has ended in the configuration error
C14_Witness ==
    /\ pc = "closed"
    /\ ~is_not_set(environ["USERNAME"])
    /\ is_not_set(environ["PASSWORD"])
    /\ response.body = "credentials_not_set"
    /\ call_log = <<>>

(***************************************************************************)
(* C15: requests served at the same time do not influence each other: the  *)
(* generator of each request is in the state it reaches when it consumes   *)
(* the same lines alone, its fetch loop has counted only its own attempts, *)
(* and a locator in the seen_streams of another request is not rejected.   *)
(***************************************************************************)
\* the iteration for one consumed line, run to the point `stop` ("line_97",
\* "line_211", "line_212", or "line_132" for the whole iteration)
run_iteration(g, entry, stop) ==
    LET api_key == environ["GEMINI_API_KEY"]
        read == loop_body(g, entry.raw, api_key, module_globals).gen
        answered == IF read.state = "suspended" /\ read.at = "line_97" /\ stop # "line_97"
                    THEN after_post(read, api_key, entry.reply).gen
                    ELSE read
        at_212 == IF answered.state = "suspended" /\ answered.at = "line_211"
                     /\ stop \in {"line_212", "line_132"}
                  THEN resume_at_211(answered)
                  ELSE answered
    IN  IF at_212.state = "suspended" /\ at_212.at = "line_212" /\ stop = "line_132"
        THEN resume_at_212(at_212)
        ELSE at_212

\* the generator that consumes `consumed` on its own, from the state g, running
\* the iteration of the last line to the point `stop`
RECURSIVE alone_gen(_, _, _)
alone_gen(g, consumed, stop) ==
    IF consumed = <<>> \/ g.state = "raised" THEN g
    ELSE alone_gen(run_iteration(g, Head(consumed),
                                 IF Len(consumed) = 1 THEN stop ELSE "line_132"),
                   Tail(consumed), stop)

\* the generator of a request run alone on what request r has consumed, as far
\* as the generator of request r has got
run_alone(r) ==
    LET started == [new_generator EXCEPT !.state = "suspended", !.at = "line_132",
                                         !.yielded = <<header_line(requests[r].tvg_url)>>]
        g == alone_gen(started, requests[r].consumed,
                       IF requests[r].gen.state = "suspended" THEN requests[r].gen.at
                       ELSE "line_132")
    IN  IF requests[r].gen.state = "finished" THEN [g EXCEPT !.state = "finished"]
        ELSE g

C15_same_output_as_alone ==
    \A r \in DOMAIN requests :
        /\ requests[r].gen.state # "created" => requests[r].gen = run_alone(r)
        /\ requests[r].gen.state = "created" => requests[r].gen = new_generator
        /\ requests[r].pc = "loop" =>
               /\ requests[r].attempt = Len(requests[r].fetched)
               /\ \A i \in 1..Len(requests[r].fetched) :
                      requests[r].fetched[i].kind # "ok"

\* C15: every request's generator and fetch loop are in the state they reach
\* when the request runs alone on the same input.
C15_RequestsAreIndependent == C15_same_output_as_alone

\* request 1 is suspended between the two yields of a pair, its locator in its
\* seen_streams, and request 2 has yielded the pair with the same locator
C15_Witness ==
    /\ requests # <<>>
    /\ requests[1].gen.at = "line_211"
    /\ requests[1].gen.seen_streams = {L_URL_A}
    /\ Len(requests[1].gen.yielded) = 2
    /\ requests[2].gen.at = "line_212"
    /\ Len(requests[2].gen.yielded) = 3
    /\ requests[2].gen.yielded[3] = L_URL_A \o NL
    /\ requests[2].gen.seen_streams = {L_URL_A}

(***************************************************************************)
(* C16: the keyword step gives an admitted record the first category of    *)
(* its region's list that has a keyword contained in the lower-cased       *)
(* display name; a later matching category does not win, and a category    *)
(* outside the region's list is not assigned by the keyword step.          *)
(***************************************************************************)
\* the positions of `list` whose category has a keyword contained in the name
matching_positions(list, display_lower) ==
    {p \in 1..Len(list) :
        \E n \in 1..Len(CATEGORIES_get(list[p])) :
            contains(CATEGORIES_get(list[p])[n], display_lower)}

\* the first category of `list` with such a keyword
first_matching_category(list, display_lower) ==
    LET ps == matching_positions(list, display_lower)
    IN  list[CHOOSE p \in ps : \A q \in ps : p <= q]

\* the category named by the group-title attribute that line 209 wrote
emitted_category(text) ==
    LET opens == occurrences(GROUP_TITLE_OPEN, text)
        open == CHOOSE i \in opens : \A j \in opens : j <= i
        closes == {i \in occurrences(GROUP_TITLE_CLOSE, text) : i > open}
        close == CHOOSE i \in closes : \A j \in closes : i <= j
    IN  SubSeq(text, open + Len(GROUP_TITLE_OPEN) + 1, close)

\* the metadata line pending when the line at position j was consumed
pending_metadata_position(j) ==
    CHOOSE m \in 1..(j - 1) :
        is_metadata_at(m) /\ \A n \in (m + 1)..(j - 1) : ~is_metadata_at(n)

\* C16: a new admitted record with a keyword match is in the output with the
\* first matching category of its region's list, and a record emitted without
\* asking the classifier has a category of its region's list or the fallback.
C16_FirstMatchingCategoryWins ==
    /\ \A i \in 1..Len(trace) :
           (/\ is_new_admitted_record_at(i)
            /\ matching_positions(listed_categories(region_at(i)),
                                  lower(display_name_at(i))) # {})
           => emitted_with(trace_line(i + 1),
                  first_matching_category(listed_categories(region_at(i)),
                                          lower(display_name_at(i))))
    /\ \A k \in 1..NumPairs :
           ~trace[position_of_pair(k)].contacted =>
               LET region == region_at(pending_metadata_position(position_of_pair(k)))
               IN  \/ in_list(emitted_category(out_meta(k)), listed_categories(region))
                   \/ emitted_category(out_meta(k)) = fallback_category(region)

(***************************************************************************)
(* C17: the classification service is contacted only in an iteration that  *)
(* reached the classification of a record, only when api_key is set and no *)
(* keyword of the region's list matched; it is not contacted for a record  *)
(* rejected as malformed, out of scope or duplicate, and one iteration     *)
(* makes at most one call.                                                 *)
(***************************************************************************)
contacted_positions == {j \in 1..Len(trace) : trace[j].contacted}

\* C17: the classifier is contacted only with api_key set, only for a record that
\* passed the scope and duplicate checks and has no keyword match, and at most
\* once for each such record.
C17_ClassifierContactedOnlyWhenNeeded ==
    /\ \A j \in contacted_positions :
           /\ environ["GEMINI_API_KEY"] \notin {None, <<>>}
           /\ trace[j].outcome \in {"asking", "yielding", "emitted", "IndexError"}
           /\ is_locator_at(j)
           /\ matching_positions(
                  listed_categories(region_at(pending_metadata_position(j))),
                  lower(display_name_at(pending_metadata_position(j)))) = {}
    /\ \A j \in 1..Len(trace) :
           trace[j].outcome \in {"malformed", "out_of_scope", "duplicate"}
               => ~trace[j].contacted
    /\ Cardinality(contacted_positions)
           <= Cardinality({j \in 1..Len(trace) :
                  trace[j].outcome \in {"asking", "yielding", "emitted", "IndexError"}})

\* the classifier was asked for a record and its answer is the record's category,
\* and an out-of-scope record of the same pass was rejected without a call
C17_Witness ==
    /\ environ["GEMINI_API_KEY"] \notin {None, <<>>}
    /\ \E j \in contacted_positions :
           /\ trace[j].outcome = "emitted"
           /\ emitted_with(trace_line(j), CAT_USA_News)
    /\ \E j \in 1..Len(trace) : trace[j].outcome = "out_of_scope"

(***************************************************************************)
(* C18: a metadata line replaces whatever metadata was pending; a record   *)
(* is judged and built from the last metadata line consumed before its     *)
(* locator, never from an earlier one.                                     *)
(***************************************************************************)
C18_metadata_becomes_pending ==
    (/\ consumed_a_line
     /\ ~decode_fails(trace'[Len(trace')].raw)
     /\ startswith(line_consumed, EXTINF))
    => gen' = [gen EXCEPT !.current_ext = line_consumed]

\* the index of the pair yielded by the iteration at position j
pair_of_position(j) == Cardinality({h \in emitted_positions : h <= j})

C18_record_uses_last_metadata ==
    \A j \in 1..Len(trace) :
        trace[j].outcome \in RecordOutcomes =>
            LET m == pending_metadata_position(j)
            IN  /\ trace[j].outcome = "malformed"
                       <=> ~EXTINF_REGEX_matches(trace_line(m))
                /\ trace[j].outcome = "out_of_scope"
                       <=> (EXTINF_REGEX_matches(trace_line(m)) /\ region_at(m) = None)
                /\ trace[j].outcome = "emitted" =>
                       /\ startswith(out_meta(pair_of_position(j)),
                                     strip(EXTINF_REGEX_group1(trace_line(m)))
                                       \o GROUP_TITLE_OPEN)
                       /\ emitted_display_name(out_meta(pair_of_position(j)))
                              = strip_prefix(display_name_at(m))

\* C18: a metadata line becomes the pending metadata, and every record is formed
\* from the last metadata line consumed before its locator.
C18_LastMetadataWins ==
    /\ []C18_record_uses_last_metadata
    /\ [][C18_metadata_becomes_pending]_vars

\* metadata A, metadata B, locator L, all three different records' lines: the
\* pair was yielded with the display name of B
C18_Witness ==
    \E i \in 1..(Len(trace) - 2) :
        /\ is_admitted_metadata_at(i)
        /\ is_admitted_metadata_at(i + 1)
        /\ display_name_at(i) # display_name_at(i + 1)
        /\ is_locator_at(i + 2)
        /\ trace[i + 2].outcome = "emitted"
        /\ emitted_display_name(out_meta(pair_of_position(i + 2)))
               = strip_prefix(display_name_at(i + 1))
        /\ emitted_display_name(out_meta(pair_of_position(i + 2)))
               # strip_prefix(display_name_at(i))

(***************************************************************************)
(* C19: the display name of a metadata line is the text after the comma    *)
(* that ends the attribute block (the first comma outside a quoted         *)
(* attribute value); admission is decided on that name.                    *)
(***************************************************************************)
\* the commas of a metadata line that are outside double quotes
commas_outside_quotes(text) ==
    {i \in 1..Len(text) :
        /\ text[i] = ","
        /\ Cardinality({q \in 1..(i - 1) : text[q] = "\""}) % 2 = 0}

\* the text after the comma that ends the attribute block
name_after_attribute_block(text) ==
    LET cs == commas_outside_quotes(text)
    IN  strip(SubSeq(text, 1 + (CHOOSE i \in cs : \A j \in cs : i <= j), Len(text)))

\* C19: a record whose metadata line has a comma after its attribute block is
\* split there: it is not malformed, and it is out of scope exactly when the
\* text after the attribute block has no accepted prefix.
C19_SplitAfterAttributeBlock ==
    \A j \in 1..Len(trace) :
        (/\ trace[j].outcome \in RecordOutcomes
         /\ commas_outside_quotes(trace_line(pending_metadata_position(j))) # {})
        => /\ trace[j].outcome # "malformed"
           /\ trace[j].outcome = "out_of_scope"
                  <=> region_of(upper(name_after_attribute_block(
                          trace_line(pending_metadata_position(j))))) = None

(***************************************************************************)
(* C20: seen_streams is exactly the set of locators yielded so far and     *)
(* only grows; a record rejected as malformed or out of scope does not     *)
(* insert its locator, so a later admitted record with that locator is     *)
(* yielded; every locator inserted is yielded, once.                       *)
(***************************************************************************)
\* the locators in seen_streams, as output lines
seen_as_output_lines == {line \o NL : line \in gen.seen_streams}

\* between records: the generator is at the for statement or has finished
C20_seen_is_what_was_emitted ==
    gen.at = "line_132" =>
        /\ seen_as_output_lines = emitted_locators
        /\ Cardinality(emitted_locators) = NumPairs

C20_rejected_locator_is_emitted_later ==
    \A h, i \in 1..Len(trace) :
        (/\ h < i
         /\ trace[h].outcome \in {"malformed", "out_of_scope"}
         /\ is_admitted_metadata_at(i)
         /\ i + 1 <= Len(trace)
         /\ trace[i + 1].raw = trace[h].raw
         /\ ~is_under_way_at(i + 1)
         /\ \A e \in emitted_positions : e < i + 1 => trace[e].raw # trace[h].raw)
        => trace[i + 1].outcome = "emitted"

C20_seen_only_grows ==
    /\ gen.seen_streams \subseteq gen'.seen_streams
    /\ (consumed_a_line /\ trace'[Len(trace')].outcome \in {"malformed", "out_of_scope"})
           => gen'.seen_streams = gen.seen_streams

\* C20: seen_streams equals the set of locators yielded so far and only grows, a
\* rejected record leaves it unchanged and its locator is yielded when an admitted
\* record brings it again, and every inserted locator is yielded exactly once.
C20_SeenSetIsEmittedSet ==
    /\ [](C20_seen_is_what_was_emitted /\ C20_rejected_locator_is_emitted_later)
    /\ [][C20_seen_only_grows]_vars

====
